---- MODULE Spec2Model ----
(***************************************************************************)
(* A model of pyflattendb's structure-inference engine                     *)
(* (src/pyflattendb/generator.py): SchemaGenerator.__init__ and the        *)
(* recursive SchemaGenerator.analyze_structure, with the helpers           *)
(* _singularize, _determine_entity_type, _get_field_metadata and           *)
(* _analyze_value.                                                         *)
(*                                                                         *)
(* Python values are records [t |-> <type tag>, c |-> <contents>].  A dict *)
(* is an insertion-ordered sequence of entries [k |-> key, v |-> value];   *)
(* a list is a sequence of values; a scalar has no contents (the analyzer  *)
(* only looks at a scalar's runtime type).  A directive bag is a function  *)
(* from the directive names it holds to their values.  Python's None,      *)
(* where it is stored in a string-typed slot, is the string NoneValue.     *)
(* Strings are TLA+ strings; _singularize, lower() and the f-strings are   *)
(* computed on their characters.                                           *)
(***************************************************************************)
EXTENDS Integers, Sequences, FiniteSets, TLC

\* ------------------------------------------------------------------ strings

NoneValue == "<None>"

EndsWith(word, suffix) ==
    /\ Len(word) >= Len(suffix)
    /\ SubSeq(word, Len(word) - Len(suffix) + 1, Len(word)) = suffix

DropLast(word, n) == SubSeq(word, 1, Len(word) - n)

LowerChar(ch) ==
    CASE ch = "A" -> "a" [] ch = "B" -> "b" [] ch = "C" -> "c" [] ch = "D" -> "d"
      [] ch = "E" -> "e" [] ch = "F" -> "f" [] ch = "G" -> "g" [] ch = "H" -> "h"
      [] ch = "I" -> "i" [] ch = "J" -> "j" [] ch = "K" -> "k" [] ch = "L" -> "l"
      [] ch = "M" -> "m" [] ch = "N" -> "n" [] ch = "O" -> "o" [] ch = "P" -> "p"
      [] ch = "Q" -> "q" [] ch = "R" -> "r" [] ch = "S" -> "s" [] ch = "T" -> "t"
      [] ch = "U" -> "u" [] ch = "V" -> "v" [] ch = "W" -> "w" [] ch = "X" -> "x"
      [] ch = "Y" -> "y" [] ch = "Z" -> "z" [] OTHER -> ch

RECURSIVE Lower(_)
Lower(word) ==
    IF Len(word) = 0 THEN word
    ELSE Lower(DropLast(word, 1)) \o LowerChar(SubSeq(word, Len(word), Len(word)))

\* ------------------------------------------------------------------ dicts

\* position of key k in the entry sequence d (keys are unique), 0 when absent
DictIndex(d, k) ==
    IF \E i \in 1..Len(d) : d[i].k = k
    THEN CHOOSE i \in 1..Len(d) : d[i].k = k
    ELSE 0

DictHas(d, k) == DictIndex(d, k) # 0

DictGet(d, k) == d[DictIndex(d, k)].v

\* d[k] = v: an existing key keeps its position, a new key goes last
DictSet(d, k, v) ==
    IF DictHas(d, k) THEN [d EXCEPT ![DictIndex(d, k)].v = v]
    ELSE Append(d, [k |-> k, v |-> v])

RECURSIVE DictUpdate(_, _)
\* d.update(other)
DictUpdate(d, other) ==
    IF Len(other) = 0 THEN d
    ELSE DictUpdate(DictSet(d, other[1].k, other[1].v), Tail(other))

\* {k: v for k, v in d.items() if k != key}
DictWithout(d, key) == SelectSeq(d, LAMBDA e : e.k # key)

DictKeys(d) == [i \in 1..Len(d) |-> d[i].k]

IsDict(value) == value.t = "dict"
IsList(value) == value.t = "list"
IsNone(value) == value.t = "NoneType"
IsStr(value) == value.t = "str"

\* ------------------------------------------------------------------ class constants

METADATA_KEY == "_pyflattendb"

COMMON_ENTITIES ==
    {"address", "user", "order", "product", "customer", "employee", "company",
     "department", "location", "contact", "payment", "item"}

Irregulars ==
    << [k |-> "addresses", v |-> "address"], [k |-> "children", v |-> "child"],
       [k |-> "feet", v |-> "foot"], [k |-> "geese", v |-> "goose"],
       [k |-> "men", v |-> "man"], [k |-> "mice", v |-> "mouse"],
       [k |-> "people", v |-> "person"], [k |-> "teeth", v |-> "tooth"],
       [k |-> "women", v |-> "woman"], [k |-> "items", v |-> "item"] >>

TypeMap ==
    << [k |-> "string", v |-> "str"], [k |-> "integer", v |-> "int"],
       [k |-> "float", v |-> "float"], [k |-> "boolean", v |-> "bool"],
       [k |-> "json", v |-> "dict"], [k |-> "array", v |-> "list"] >>

\* ------------------------------------------------------------------ pure helpers

\* SchemaGenerator._singularize
Singularize(word) ==
    IF Len(word) = 0 THEN word
    ELSE IF DictHas(Irregulars, word) THEN DictGet(Irregulars, word)
    ELSE IF EndsWith(word, "ies") THEN DropLast(word, 3) \o "y"
    ELSE IF EndsWith(word, "es") THEN DropLast(word, 2)
    ELSE IF EndsWith(word, "s") THEN DropLast(word, 1)
    ELSE word

\* metadata.get(name, default) on a directive bag
BagGet(bag, name, default) == IF name \in DOMAIN bag THEN bag[name] ELSE default

EmptyBag == [name \in {} |-> TRUE]

\* SchemaGenerator._get_field_metadata over the store md
GetFieldMetadata(md, type_name, field_name) ==
    IF DictHas(md, type_name \o "." \o field_name)
    THEN DictGet(md, type_name \o "." \o field_name)
    ELSE IF Singularize(type_name) # type_name
            /\ DictHas(md, Singularize(type_name) \o "." \o field_name)
    THEN DictGet(md, Singularize(type_name) \o "." \o field_name)
    ELSE EmptyBag

\* _determine_entity_type without its first step: the directive is not consulted
DetermineEntityTypeIgnoringDirective(md, field_name, parent_type) ==
    IF Singularize(Lower(field_name)) \in COMMON_ENTITIES
    THEN Singularize(Lower(field_name))
    ELSE IF Lower(field_name) \in COMMON_ENTITIES THEN Lower(field_name)
    ELSE field_name

\* _determine_entity_type falling back to the field name at once
DetermineEntityTypeVerbatim(md, field_name, parent_type) ==
    LET metadata == GetFieldMetadata(md, parent_type, field_name)
    IN  IF "entity_type" \in DOMAIN metadata THEN metadata["entity_type"]
        ELSE field_name

\* SchemaGenerator._determine_entity_type; NoneValue when the directive is None
DetermineEntityType(md, field_name, parent_type) ==
    LET metadata == GetFieldMetadata(md, parent_type, field_name)
        singular_name == Singularize(Lower(field_name))
    IN  IF "entity_type" \in DOMAIN metadata THEN metadata["entity_type"]
        ELSE IF singular_name \in COMMON_ENTITIES THEN singular_name
        ELSE IF Lower(field_name) \in COMMON_ENTITIES THEN Lower(field_name)
        ELSE field_name

\* the list rule with the field name taken as it is, not singularized
ListEntityTypeVerbatim(metadata, field_name) ==
    IF BagGet(metadata, "entity_type", NoneValue) \in {NoneValue, ""}
    THEN field_name
    ELSE metadata["entity_type"]

\* metadata.get("entity_type") or self._singularize(field_name): None and the
\* empty string are falsy
ListEntityType(metadata, field_name) ==
    IF BagGet(metadata, "entity_type", NoneValue) \in {NoneValue, ""}
    THEN Singularize(field_name)
    ELSE metadata["entity_type"]

\* the FieldInfo dataclass with its defaults
FieldInfo(name, python_type, nullable, description, metadata) ==
    [ name |-> name,
      python_type |-> python_type,
      nullable |-> nullable,
      is_relationship |-> FALSE,
      relationship_type |-> NoneValue,
      is_list |-> FALSE,
      description |-> description,
      metadata |-> metadata,
      is_foreign_key |-> FALSE,
      foreign_key_to |-> NoneValue,
      is_reference_table |-> FALSE,
      reference_table_name |-> NoneValue,
      is_many_to_many |-> FALSE,
      association_table_name |-> NoneValue ]

\* lines 376-388: the reference-table (string enum) descriptor
ReferenceTableField(metadata, value, field_name) ==
    [FieldInfo(field_name, "str", BagGet(metadata, "nullable", IsNone(value)),
               BagGet(metadata, "description", NoneValue), metadata)
        EXCEPT !.is_reference_table = TRUE,
               !.reference_table_name =
                   BagGet(metadata, "reference_table_name", field_name \o "_ref")]

\* the reference-table rule applied whatever the example value is
IsReferenceTableAnyValue(metadata, value) ==
    BagGet(metadata, "is_reference_table", FALSE)

\* line 376: the condition of the reference-table rule
IsReferenceTable(metadata, value) ==
    BagGet(metadata, "is_reference_table", FALSE) /\ IsStr(value)

\* type_map.get(metadata["type"]): NoneValue for a name the map does not hold
DeclaredType(metadata) ==
    IF DictHas(TypeMap, metadata["type"]) THEN DictGet(TypeMap, metadata["type"])
    ELSE NoneValue

\* _analyze_value with the check of line 394 left out
UnsupportedTypeIgnored(metadata, value) == FALSE

\* _analyze_value raises ValueError("Unsupported type in metadata") (line 395)
UnsupportedType(metadata, value) ==
    /\ ~IsReferenceTable(metadata, value)
    /\ "type" \in DOMAIN metadata
    /\ DeclaredType(metadata) = NoneValue

\* the descriptor typed from the example value, the type override not applied
PlainFieldInferred(metadata, value, field_name) ==
    FieldInfo(field_name, value.t,
              BagGet(metadata, "nullable", IsNone(value)),
              BagGet(metadata, "description", NoneValue),
              metadata)

\* lines 390-406: the descriptor before relationship inference
PlainField(metadata, value, field_name) ==
    FieldInfo(field_name,
              IF "type" \in DOMAIN metadata THEN DeclaredType(metadata) ELSE value.t,
              BagGet(metadata, "nullable", IsNone(value)),
              BagGet(metadata, "description", NoneValue),
              metadata)

\* the None rule with the entity_type directive not consulted
NullFieldPlain(field_info, metadata) == field_info

\* lines 408-415: a None example
NullField(field_info, metadata) ==
    IF "entity_type" \in DOMAIN metadata
    THEN [field_info EXCEPT !.is_relationship = TRUE,
                            !.relationship_type = metadata["entity_type"],
                            !.python_type = "Any"]
    ELSE field_info

\* lines 420-430: a dict example
SingularRelationship(field_info, entity_type) ==
    IF entity_type # NoneValue
    THEN [field_info EXCEPT !.is_relationship = TRUE,
                            !.relationship_type = entity_type,
                            !.is_foreign_key = TRUE,
                            !.foreign_key_to = entity_type]
    ELSE field_info

\* PluralRelationship with the foreign-key flag left set on a many-to-many field
PluralRelationshipKeepsForeignKey(field_info, metadata, parent_type, entity_type) ==
    [field_info EXCEPT
        !.is_relationship = TRUE,
        !.relationship_type = entity_type,
        !.is_many_to_many = BagGet(metadata, "is_many_to_many", FALSE),
        !.association_table_name =
            IF BagGet(metadata, "is_many_to_many", FALSE)
            THEN BagGet(metadata, "association_table_name",
                        parent_type \o "_" \o entity_type \o "_association")
            ELSE NoneValue,
        !.is_foreign_key = TRUE,
        !.foreign_key_to = entity_type]

\* lines 441-457: a non-empty list of dicts
PluralRelationship(field_info, metadata, parent_type, entity_type) ==
    IF BagGet(metadata, "is_many_to_many", FALSE)
    THEN [field_info EXCEPT
            !.is_relationship = TRUE,
            !.relationship_type = entity_type,
            !.is_many_to_many = TRUE,
            !.association_table_name =
                BagGet(metadata, "association_table_name",
                       parent_type \o "_" \o entity_type \o "_association"),
            !.is_foreign_key = FALSE]
    ELSE [field_info EXCEPT
            !.is_relationship = TRUE,
            !.relationship_type = entity_type,
            !.is_foreign_key = TRUE,
            !.foreign_key_to = entity_type]

\* _analyze_value without the self-name rule of lines 416-417
AnalyzeValueNamingParent(md, value, field_name, parent_type) ==
    LET metadata == GetFieldMetadata(md, parent_type, field_name)
        field_info == PlainField(metadata, value, field_name)
    IN  IF IsReferenceTable(metadata, value)
        THEN ReferenceTableField(metadata, value, field_name)
        ELSE IF IsNone(value) THEN NullField(field_info, metadata)
        ELSE IF IsDict(value)
        THEN SingularRelationship(field_info,
                                  DetermineEntityType(md, field_name, parent_type))
        ELSE IF IsList(value)
        THEN IF Len(value.c) = 0 \/ ~IsDict(value.c[1])
             THEN [field_info EXCEPT !.is_list = TRUE]
             ELSE PluralRelationship([field_info EXCEPT !.is_list = TRUE], metadata,
                                     parent_type, ListEntityType(metadata, field_name))
        ELSE field_info

\* SchemaGenerator._analyze_value, where it does not raise
AnalyzeValue(md, value, field_name, parent_type) ==
    LET metadata == GetFieldMetadata(md, parent_type, field_name)
        field_info == PlainField(metadata, value, field_name)
    IN  IF IsReferenceTable(metadata, value)
        THEN ReferenceTableField(metadata, value, field_name)
        ELSE IF IsNone(value) THEN NullField(field_info, metadata)
        ELSE IF field_name = parent_type THEN field_info
        ELSE IF IsDict(value)
        THEN SingularRelationship(field_info,
                                  DetermineEntityType(md, field_name, parent_type))
        ELSE IF IsList(value)
        THEN IF Len(value.c) = 0 \/ ~IsDict(value.c[1])
             THEN [field_info EXCEPT !.is_list = TRUE]
             ELSE PluralRelationship([field_info EXCEPT !.is_list = TRUE], metadata,
                                     parent_type, ListEntityType(metadata, field_name))
        ELSE field_info

\* the synthetic primary key of the finishing pass
IdField ==
    FieldInfo("id", "int", FALSE, "Primary key", [name \in {"primary_key"} |-> TRUE])

HasExplicitPk(fields) ==
    \E i \in 1..Len(fields) : BagGet(fields[i].metadata, "primary_key", FALSE)

\* the finishing pass putting the synthetic field after the data fields
FinishingPassAppending(graph) ==
    [i \in 1..Len(graph) |->
        IF EndsWith(graph[i].k, "_association") \/ HasExplicitPk(graph[i].v)
        THEN graph[i]
        ELSE [graph[i] EXCEPT !.v = Append(graph[i].v, IdField)]]

\* analyze_structure's finishing pass over the whole graph
FinishingPass(graph) ==
    [i \in 1..Len(graph) |->
        IF EndsWith(graph[i].k, "_association") \/ HasExplicitPk(graph[i].v)
        THEN graph[i]
        ELSE [graph[i] EXCEPT !.v = <<IdField>> \o graph[i].v]]

\* ------------------------------------------------------------------ values

Scalar(t) == [t |-> t, c |-> <<>>]
Dict(entries) == [t |-> "dict", c |-> entries]
List(items) == [t |-> "list", c |-> items]
Entry(k, v) == [k |-> k, v |-> v]
PyInt == Scalar("int")
PyStr == Scalar("str")
PyNone == Scalar("NoneType")

\* ------------------------------------------------------------------ state

VARIABLES
    document,       \* the caller's document object
    arg_type_name,  \* the type_name argument, NoneValue when not given
    pc,             \* "new", "ready", "analyzing", "done", "error"
    error,          \* the exception raised, "" when none
    type_name,      \* self.type_name
    root_data,      \* self._root_data
    metadata,       \* self._metadata, the shared directive store
    aliased,        \* self._metadata is the document's own "_pyflattendb" dict
    analyzed,       \* self._analyzed_structure, the shared entity graph
    stack,          \* the active analyze_structure calls, innermost last
    visits,         \* history: entity names in the order their field analysis began
    derived,        \* history: per entry of visits, the field list that call derived
    run,            \* 1 during the first analysis, 2 during a second one
    second,         \* how the second analysis was started: "", "fresh", "again"
    first_result,   \* history: the graph the first analysis returned
    original,       \* history: the document as the caller passed it
    generated_models \* what generate_pydantic_models built: name -> field -> annotation

vars == <<document, arg_type_name, pc, error, type_name, root_data, metadata,
          aliased, analyzed, stack, visits, derived, run, second, first_result,
          original, generated_models>>

\* ------------------------------------------------------------------ __init__

\* SchemaGenerator._extract_metadata: the block itself when it is a dict
HasMetadataBlock(data) ==
    DictHas(data.c, METADATA_KEY) /\ IsDict(DictGet(data.c, METADATA_KEY))

ExtractMetadata(data) ==
    IF HasMetadataBlock(data) THEN DictGet(data.c, METADATA_KEY).c ELSE <<>>

\* __init__ counting the metadata key among the top-level keys
InitFailsCountingMetadataKey(data, name) ==
    \/ ~IsDict(data)
    \/ name = NoneValue /\ (Len(data.c) # 1 \/ DictHas(data.c, METADATA_KEY))

\* __init__ raises ValueError
InitFails(data, name) ==
    \/ ~IsDict(data)
    \/ name = NoneValue /\ Len(DictWithout(data.c, METADATA_KEY)) # 1

\* __init__ preferring a single top-level key to the type_name argument
InitTypeNamePrefersKey(data, name) ==
    IF Len(DictWithout(data.c, METADATA_KEY)) = 1
    THEN DictWithout(data.c, METADATA_KEY)[1].k
    ELSE name

\* __init__ taking the first top-level key, the metadata key not removed
InitTypeNameKeepingKey(data, name) ==
    IF name # NoneValue THEN name ELSE data.c[1].k

\* self.type_name after __init__
InitTypeName(data, name) ==
    IF name # NoneValue THEN name ELSE DictWithout(data.c, METADATA_KEY)[1].k

\* self._root_data after __init__
InitRootData(data, name) ==
    LET stripped == DictWithout(data.c, METADATA_KEY)
    IN  IF name # NoneValue
        THEN IF DictHas(stripped, name) THEN DictGet(stripped, name) ELSE Dict(stripped)
        ELSE stripped[1].v

\* the body of __init__ over the caller's document
InitGenerator ==
    /\ IF InitFails(document, arg_type_name)
       THEN /\ pc' = "error"
            /\ error' = "ValueError"
            /\ UNCHANGED <<type_name, root_data, metadata, aliased>>
       ELSE /\ pc' = "ready"
            /\ error' = ""
            /\ type_name' = InitTypeName(document, arg_type_name)
            /\ root_data' = InitRootData(document, arg_type_name)
            /\ metadata' = ExtractMetadata(document)
            /\ aliased' = HasMetadataBlock(document)
    /\ analyzed' = <<>>
    /\ stack' = <<>>
    /\ visits' = <<>>
    /\ derived' = <<>>
    /\ UNCHANGED <<document, arg_type_name, original, generated_models>>

\* SchemaGenerator(document, type_name)
Construct ==
    /\ pc = "new"
    /\ InitGenerator
    /\ UNCHANGED <<run, second, first_result>>

\* a fresh SchemaGenerator over the same document object, after the first
\* generator's analysis returned
Reconstruct ==
    /\ pc = "done"
    /\ run = 1
    /\ run' = 2
    /\ second' = "fresh"
    /\ first_result' = analyzed
    /\ InitGenerator

\* ------------------------------------------------------------------ analyze_structure

\* self._metadata.update(block) also changes the caller's document when the
\* store is the document's own dict
StoreWrite(doc, isAliased, store) ==
    IF isAliased THEN [doc EXCEPT !.c = DictSet(doc.c, METADATA_KEY, Dict(store))]
    ELSE doc

\* the merge keeping the declaration the store already holds (first-write-wins)
MergedStoreKeepingEarlier(md, data) ==
    IF DictHas(data.c, METADATA_KEY) /\ IsDict(DictGet(data.c, METADATA_KEY))
    THEN md \o SelectSeq(DictGet(data.c, METADATA_KEY).c, LAMBDA e : ~DictHas(md, e.k))
    ELSE md

\* lines 499-506: the store after merging the block found in data
MergedStore(md, data) ==
    IF DictHas(data.c, METADATA_KEY) /\ IsDict(DictGet(data.c, METADATA_KEY))
    THEN DictUpdate(md, DictGet(data.c, METADATA_KEY).c)
    ELSE md

Frame(name, data) ==
    [type_name |-> name, items |-> DictWithout(data.c, METADATA_KEY),
     idx |-> 1, fields |-> <<>>]

\* "_pyflattendb" in root_data raises TypeError for these
NotContainer(value) == value.t \in {"int", "float", "bool", "NoneType"}

\* history: a call that has started and not returned
Pending == [done |-> FALSE, fields |-> <<>>]

\* analyze_structure up to the field loop (lines 495-512)
BeginAnalysis ==
    /\ IF NotContainer(root_data)
       THEN /\ pc' = "error" /\ error' = "TypeError"
            /\ UNCHANGED <<metadata, document, stack, visits, derived>>
       ELSE IF ~IsDict(root_data)
       THEN /\ pc' = "error" /\ error' = "ValueError"
            /\ UNCHANGED <<metadata, document, stack, visits, derived>>
       ELSE /\ pc' = "analyzing" /\ error' = ""
            /\ metadata' = MergedStore(metadata, root_data)
            /\ document' = StoreWrite(document, aliased, metadata')
            /\ stack' = <<Frame(type_name, root_data)>>
            /\ visits' = <<type_name>>
            /\ derived' = <<Pending>>
    /\ UNCHANGED <<arg_type_name, type_name, root_data, aliased, analyzed, original,
                   generated_models>>

\* generator.analyze_structure()
AnalyzeBegin ==
    /\ pc = "ready"
    /\ BeginAnalysis
    /\ UNCHANGED <<run, second, first_result>>

\* generator.analyze_structure() again, on the generator whose first call returned
Reanalyze ==
    /\ pc = "done"
    /\ run = 1
    /\ run' = 2
    /\ second' = "again"
    /\ first_result' = analyzed
    /\ BeginAnalysis

\* the entity type analyze_structure computes for a field (lines 517-547)
FieldEntityType(md, value, field_name, parent_type) ==
    IF IsDict(value) THEN DetermineEntityType(md, field_name, parent_type)
    ELSE ListEntityType(GetFieldMetadata(md, parent_type, field_name), field_name)

\* the example sub-document a relationship field recurses into
NestedValue(value) == IF IsDict(value) THEN value ELSE value.c[1]

\* the test for a nested analysis without the look into the graph (line 530)
RecursesIntoKnownEntity(graph, md, value, field_name, parent_type) ==
    /\ IsDict(value) \/ (IsList(value) /\ Len(value.c) > 0 /\ IsDict(value.c[1]))
    /\ LET field_info == AnalyzeValue(md, value, field_name, parent_type)
           entity_type == FieldEntityType(md, value, field_name, parent_type)
       IN  /\ field_info.is_relationship
           /\ field_info.is_list = IsList(value)
           /\ entity_type # NoneValue

\* lines 524-530 and 552-558: the field starts a nested analysis
Recurses(graph, md, value, field_name, parent_type) ==
    /\ IsDict(value) \/ (IsList(value) /\ Len(value.c) > 0 /\ IsDict(value.c[1]))
    /\ LET field_info == AnalyzeValue(md, value, field_name, parent_type)
           entity_type == FieldEntityType(md, value, field_name, parent_type)
       IN  /\ field_info.is_relationship
           /\ field_info.is_list = IsList(value)
           /\ entity_type # NoneValue
           /\ ~DictHas(graph, entity_type)

\* the nested generator's root data: {entity_type: value} through __init__
NestedRootData(entity_type, value) ==
    InitRootData(Dict(<<Entry(entity_type, value)>>), entity_type)

Top == stack[Len(stack)]

\* history: the entry of visits that belongs to the innermost active call,
\* the last one that has not returned
ActiveVisit ==
    CHOOSE i \in 1..Len(derived) :
        /\ ~derived[i].done
        /\ \A j \in (i + 1)..Len(derived) : derived[j].done

\* the loop body appending the descriptor without moving to the next item
AdvanceStuck(frame, field_info) ==
    [frame EXCEPT !.fields = Append(@, field_info)]

\* fields.append(field_info) and the loop's step to the next item
Advance(frame, field_info) ==
    [frame EXCEPT !.idx = @ + 1, !.fields = Append(@, field_info)]

\* one iteration of the field loop of the innermost active call (lines 513-575),
\* up to and including the start of the nested call it makes
AnalyzeField ==
    /\ pc = "analyzing"
    /\ Top.idx <= Len(Top.items)
    /\ LET field_name == Top.items[Top.idx].k
           value == Top.items[Top.idx].v
           parent == Top.type_name
       IN  IF field_name = METADATA_KEY
           THEN /\ stack' = [stack EXCEPT ![Len(stack)].idx = @ + 1]
                /\ UNCHANGED <<pc, error, metadata, document, visits, derived>>
           ELSE IF UnsupportedType(GetFieldMetadata(metadata, parent, field_name), value)
           THEN /\ pc' = "error" /\ error' = "ValueError"
                /\ stack' = <<>>
                /\ UNCHANGED <<metadata, document, visits, derived>>
           ELSE LET field_info == AnalyzeValue(metadata, value, field_name, parent)
                    advanced == [stack EXCEPT ![Len(stack)] = Advance(@, field_info)]
                IN  IF Recurses(analyzed, metadata, value, field_name, parent)
                    THEN LET entity_type == FieldEntityType(metadata, value, field_name, parent)
                             nested == NestedRootData(entity_type, NestedValue(value))
                         IN  /\ metadata' = MergedStore(metadata, nested)
                             /\ document' = StoreWrite(document, aliased, metadata')
                             /\ stack' = Append(advanced, Frame(entity_type, nested))
                             /\ visits' = Append(visits, entity_type)
                             /\ derived' = Append(derived, Pending)
                             /\ UNCHANGED <<pc, error>>
                    ELSE /\ stack' = advanced
                         /\ UNCHANGED <<pc, error, metadata, document, visits, derived>>
    /\ UNCHANGED <<arg_type_name, type_name, root_data, aliased, analyzed, run,
                   second, first_result, original, generated_models>>

\* the end of the innermost active call (lines 576-595): register the entity,
\* run the finishing pass over the shared graph, return to the caller
AnalyzeReturn ==
    /\ pc = "analyzing"
    /\ Top.idx > Len(Top.items)
    /\ analyzed' = FinishingPass(DictSet(analyzed, Top.type_name, Top.fields))
    /\ stack' = DropLast(stack, 1)
    /\ pc' = IF Len(stack) = 1 THEN "done" ELSE "analyzing"
    /\ derived' = [derived EXCEPT
                        ![ActiveVisit] = [done |-> TRUE, fields |-> Top.fields]]
    /\ UNCHANGED <<document, arg_type_name, error, type_name, root_data, metadata,
                   aliased, visits, run, second, first_result, original,
                   generated_models>>

\* ------------------------------------------------------------------ generate_pydantic_models

\* a field's annotation: a Python type or a generated model (by entity name),
\* and how it is wrapped
Annotation(of, model, wrap) == [of |-> of, model |-> model, wrap |-> wrap]

\* create_field_definition (lines 881-918), for the directives modelled
CreateFieldDefinition(field_info) ==
    LET base == IF field_info.is_relationship
                THEN IF field_info.is_list THEN Annotation("Any", FALSE, "List")
                     ELSE Annotation("Any", FALSE, "")
                ELSE Annotation(field_info.python_type, FALSE, "")
    IN  IF field_info.nullable /\ base # Annotation("NoneType", FALSE, "")
        THEN [base EXCEPT !.wrap = IF @ = "" THEN "Optional" ELSE "Optional[List]"]
        ELSE base     \* Optional[type(None)] is type(None)

RECURSIVE FieldDefinitions(_)
\* field_definitions[field_name] = ... for every field, in order (lines 931-934)
FieldDefinitions(fields) ==
    IF Len(fields) = 0 THEN <<>>
    ELSE DictSet(FieldDefinitions(SubSeq(fields, 1, Len(fields) - 1)),
                 fields[Len(fields)].name,
                 CreateFieldDefinition(fields[Len(fields)]))

\* lines 943-957 for one field: the annotation becomes the related model when
\* that model has been generated
WireField(generated, model_name, field_info) ==
    IF field_info.is_relationship /\ DictHas(generated, field_info.relationship_type)
    THEN DictSet(generated, model_name,
                 DictSet(DictGet(generated, model_name), field_info.name,
                         Annotation(field_info.relationship_type, TRUE,
                                    IF field_info.is_list THEN "List[Optional]"
                                    ELSE "Optional")))
    ELSE generated

RECURSIVE WireFields(_, _, _)
WireFields(generated, model_name, fields) ==
    IF Len(fields) = 0 THEN generated
    ELSE WireFields(WireField(generated, model_name, fields[1]), model_name, Tail(fields))

\* create_model_for_type (lines 920-959)
CreateModelForType(graph, generated, model_name) ==
    IF DictHas(generated, model_name) THEN generated
    ELSE WireFields(DictSet(generated, model_name,
                            FieldDefinitions(DictGet(graph, model_name))),
                    model_name, DictGet(graph, model_name))

RECURSIVE CreateModels(_, _, _)
\* for model_name in self._analyzed_structure: create_model_for_type(model_name)
CreateModels(graph, generated, i) ==
    IF i > Len(graph) THEN generated
    ELSE CreateModels(graph, CreateModelForType(graph, generated, graph[i].k), i + 1)

\* generator.generate_pydantic_models() on a generator whose graph is not
\* empty, after analyze_structure returned or raised; with an empty graph the
\* call starts with analyze_structure (AnalyzeBegin)
GeneratePydanticModels ==
    /\ pc \in {"done", "error"}
    /\ analyzed # <<>>
    /\ generated_models' = CreateModels(analyzed, <<>>, 1)
    /\ pc' = "generated"
    /\ UNCHANGED <<document, arg_type_name, error, type_name, root_data, metadata,
                   aliased, analyzed, stack, visits, derived, run, second,
                   first_result, original>>


\* ------------------------------------------------------------------ inputs

MaxTopKeys == 2        \* keys of a document in TopDocuments
MaxExtraFields == 1    \* fields of the root entity after the first one
MaxDirectives == 2     \* directives of a block in KeyedDocuments

FieldNames == {"user", "orders", "addresses", "tags"}
TypeNameArgs == {NoneValue, "user", "users"}

Leaves == {PyInt, PyStr, PyNone}

\* example sub-documents of a nested entity
NestedEntries ==
    {<<>>, <<Entry("tags", PyInt)>>, <<Entry("user", PyNone)>>,
     <<Entry("user", Dict(<<>>))>>}

NestedValues(entries) ==
    {Dict(e) : e \in entries} \cup {List(<<Dict(e)>>) : e \in entries}

FieldValues ==
    Leaves \cup {List(<<>>), List(<<PyInt>>)} \cup NestedValues(NestedEntries)

SimpleValues == {PyInt, PyStr, Dict(<<>>)}

KeySet(entries) == {entries[i].k : i \in 1..Len(entries)}

RECURSIVE EntrySeqs(_, _, _)
\* the dicts of at most n entries with keys in names and values in values
EntrySeqs(names, values, n) ==
    IF n = 0 THEN {<<>>}
    ELSE LET shorter == EntrySeqs(names, values, n - 1)
         IN  shorter \cup
             UNION {{Append(e, Entry(k, v)) : k \in names \ KeySet(e), v \in values}
                    : e \in shorter}

Bag1(name, value) == [n \in {name} |-> value]
Bag2(name1, value1, name2, value2) ==
    [n \in {name1, name2} |-> IF n = name1 THEN value1 ELSE value2]

Bags ==
    {Bag1("entity_type", "order"), Bag1("entity_type", NoneValue),
     Bag1("type", "string"), Bag1("type", "bogus"),
     Bag1("is_reference_table", TRUE),
     Bag2("is_reference_table", TRUE, "type", "bogus"),
     Bag1("is_many_to_many", TRUE), Bag1("primary_key", TRUE)}

Block(store) == <<Entry(METADATA_KEY, Dict(store))>>

\* the "entity.field" keys of the fields that occur in a root entity "user"
\* whose fields are the given entries
KeysFor(entries) ==
    {"user." \o entries[i].k : i \in 1..Len(entries)} \cup
    UNION {LET value == entries[i].v
               inner == IF IsDict(value) THEN value.c
                        ELSE IF IsList(value) /\ Len(value.c) > 0 /\ IsDict(value.c[1])
                        THEN value.c[1].c ELSE <<>>
               parents == {DetermineEntityType(<<>>, entries[i].k, "user"),
                           Singularize(entries[i].k)}
           IN  {q \o "." \o inner[j].k : q \in parents,
                j \in {n \in 1..Len(inner) : inner[n].k # METADATA_KEY}}
           : i \in 1..Len(entries)}

\* the caller's arguments
Given(doc, arg) ==
    /\ document = doc
    /\ arg_type_name = arg
    /\ original = doc

\* any value as the document, with and without a type_name: the shapes
\* __init__ and the start of analyze_structure tell apart
TopValues ==
    {PyInt, PyNone, PyStr, List(<<>>), Dict(<<>>), Dict(<<Entry("tags", PyInt)>>)}

TopDocuments ==
    \E arg \in TypeNameArgs :
        \/ \E doc \in {PyInt, PyStr, List(<<>>)} : Given(doc, arg)
        \/ \E e \in EntrySeqs(FieldNames \cup {METADATA_KEY}, TopValues, MaxTopKeys) :
              Given(Dict(e), arg)

\* {"user": {...}} with at most one directive, declared in the document's
\* block or in the root entity's own block
FieldDocuments ==
    \E n1 \in FieldNames, v1 \in FieldValues :
      \E extra \in EntrySeqs(FieldNames \ {n1}, SimpleValues, MaxExtraFields) :
        LET fields == <<Entry(n1, v1)>> \o extra
        IN  \/ Given(Dict(<<Entry("user", Dict(fields))>>), NoneValue)
            \/ \E key \in KeysFor(fields), bag \in Bags :
                 \/ Given(Dict(Block(<<Entry(key, bag)>>) \o <<Entry("user", Dict(fields))>>),
                          NoneValue)
                 \/ Given(Dict(<<Entry("user", Dict(fields \o Block(<<Entry(key, bag)>>)))>>),
                          NoneValue)

\* {"_pyflattendb": {...}, "user": {n1: v1, n2: v2}} with up to MaxDirectives
\* directives for the two fields in one block
KeyedValues == {PyInt, PyStr}

KeyedDocuments ==
    \E n1 \in FieldNames, v1 \in KeyedValues :
      \E n2 \in FieldNames \ {n1}, v2 \in KeyedValues :
        \E store \in EntrySeqs({"user." \o n1, "user." \o n2}, Bags, MaxDirectives) :
          Given(Dict(Block(store) \o
                     <<Entry("user", Dict(<<Entry(n1, v1), Entry(n2, v2)>>))>>),
                NoneValue)

\* a nested entity's example carrying its own "_pyflattendb" key: a block with
\* one directive or a value that is no dict; the document itself has no block,
\* an empty one, or one that declares the same key
OuterBag == Bag1("type", "string")

NestedBlockDocuments ==
    \E n1 \in FieldNames, inner \in NestedEntries, isList \in BOOLEAN :
      \E extra \in EntrySeqs(FieldNames \ {n1}, {PyStr}, MaxExtraFields) :
        LET plain == <<Entry(n1, Dict(inner))>> \o extra
            Fields(block) ==
                <<Entry(n1, IF isList THEN List(<<Dict(block \o inner)>>)
                            ELSE Dict(block \o inner))>> \o extra
        IN  \/ Given(Dict(<<Entry("user", Dict(Fields(<<Entry(METADATA_KEY, PyInt)>>)))>>),
                     NoneValue)
            \/ \E key \in KeysFor(plain), bag \in Bags :
                 LET root == <<Entry("user", Dict(Fields(Block(<<Entry(key, bag)>>))))>>
                 IN  \/ Given(Dict(root), NoneValue)
                     \/ Given(Dict(Block(<<>>) \o root), NoneValue)
                     \/ Given(Dict(Block(<<Entry(key, OuterBag)>>) \o root), NoneValue)

\* {"_pyflattendb": {"user.<n>": bag}, "user": {n: v}} with a bag of two
\* directives (a nullable directive among them), or with an entity_type
\* directive that names an association table or the reserved key
CombinedBags ==
    {Bag2("is_reference_table", TRUE, "type", "integer"),
     Bag2("is_reference_table", TRUE, "reference_table_name", "labels"),
     Bag2("entity_type", "order", "type", "string"),
     Bag2("entity_type", "order", "nullable", FALSE),
     Bag1("entity_type", "user_association"),
     Bag1("entity_type", METADATA_KEY)}

CombinedValues ==
    {PyInt, PyStr, PyNone, Dict(<<>>), Dict(<<Entry("tags", PyInt)>>),
     List(<<Dict(<<>>)>>)}

CombinedDocuments ==
    \E n \in FieldNames, v \in CombinedValues, bag \in CombinedBags :
        Given(Dict(Block(<<Entry("user." \o n, bag)>>) \o
                   <<Entry("user", Dict(<<Entry(n, v)>>))>>),
              NoneValue)

\* {"user": {"id": v, ...}}, with and without a primary_key directive for "id"
IdDocuments ==
    \E v \in {PyInt, PyStr} :
      \E extra \in EntrySeqs(FieldNames, {PyStr}, MaxExtraFields) :
        LET root == <<Entry("user", Dict(<<Entry("id", v)>> \o extra))>>
        IN  \/ Given(Dict(root), NoneValue)
            \/ Given(Dict(Block(<<Entry("user.id", Bag1("primary_key", TRUE))>>) \o root),
                     NoneValue)

\* the reserved key given as the type_name
ReservedNameDocuments ==
    \E e \in EntrySeqs({"tags", METADATA_KEY}, {PyInt, Dict(<<>>)}, MaxTopKeys) :
        Given(Dict(e), METADATA_KEY)

\* {"user": {n: v}} with a dict or a list of dicts under a field name that is
\* capitalised, is itself a common entity, or is neither in any form
NamingNames == {"Orders", "address", "Address", "Tags", "categories"}

NamingDocuments ==
    \E n \in NamingNames, inner \in {<<>>, <<Entry("tags", PyInt)>>} :
      \E v \in {Dict(inner), List(<<Dict(inner)>>)} :
        Given(Dict(<<Entry("user", Dict(<<Entry(n, v)>>))>>), NoneValue)

Init ==
    /\ \/ TopDocuments \/ FieldDocuments \/ KeyedDocuments \/ NestedBlockDocuments
       \/ CombinedDocuments \/ IdDocuments \/ ReservedNameDocuments
       \/ NamingDocuments
    /\ pc = "new"
    /\ error = ""
    /\ type_name = NoneValue
    /\ root_data = PyNone
    /\ metadata = <<>>
    /\ aliased = FALSE
    /\ analyzed = <<>>
    /\ stack = <<>>
    /\ visits = <<>>
    /\ derived = <<>>
    /\ run = 1
    /\ second = ""
    /\ first_result = <<>>
    /\ generated_models = <<>>

Next ==
    Construct \/ AnalyzeBegin \/ AnalyzeField \/ AnalyzeReturn \/ GeneratePydanticModels

Spec == Init /\ [][Next]_vars

\* a second generator over the same document, or a second call on the same
\* generator, after the first analysis
NextTwice == Next \/ Reconstruct \/ Reanalyze

SpecTwice == Init /\ [][NextTwice]_vars

\* ------------------------------------------------------------------ properties

Returned == pc = "done"

Entities(graph) == {graph[i].k : i \in 1..Len(graph)}

FieldsOf(graph) ==
    UNION {{graph[i].v[j] : j \in 1..Len(graph[i].v)} : i \in 1..Len(graph)}

\* the descriptors of the graph and of the calls still active
AllFields ==
    FieldsOf(analyzed) \cup
    UNION {{stack[i].fields[j] : j \in 1..Len(stack[i].fields)} : i \in 1..Len(stack)}

MarkedPrimaryKey(field) == BagGet(field.metadata, "primary_key", FALSE)

PrimaryKeyCount(fields) ==
    Cardinality({j \in 1..Len(fields) : MarkedPrimaryKey(fields[j])})

\* same entity names and, per entity, the same descriptors in the same order
SameGraph(g, h) ==
    /\ Entities(g) = Entities(h)
    /\ \A name \in Entities(g) : DictGet(g, name) = DictGet(h, name)

\* C1: after analyze_structure returns, every entity whose name does not end
\* in "_association" has exactly one field marked primary key (a field whose
\* directive bag has primary_key true, or the synthetic "id" field).
C1_ExactlyOnePrimaryKey ==
    Returned =>
        \A i \in 1..Len(analyzed) :
            ~EndsWith(analyzed[i].k, "_association") =>
                PrimaryKeyCount(analyzed[i].v) = 1

\* C2: every field descriptor with is_many_to_many = true also has
\* is_list = true and is_foreign_key = false.
C2_ManyToManyExclusive ==
    \A field \in AllFields :
        field.is_many_to_many => field.is_list /\ ~field.is_foreign_key

C2_Witness ==
    /\ Returned
    /\ \E field \in FieldsOf(analyzed) : field.is_many_to_many

\* C3: analyzing the same document a second time with a fresh generator over
\* the same document object yields a structurally identical graph.
C3_FreshAnalysesAgree ==
    (Returned /\ second = "fresh") => SameGraph(first_result, analyzed)

\* ---- the field loop, one iteration at a time

\* the innermost active call is about to analyze a field
InLoop == pc = "analyzing" /\ Top.idx <= Len(Top.items)

CurName == Top.items[Top.idx].k
CurValue == Top.items[Top.idx].v
CurParent == Top.type_name

\* the directive bag _get_field_metadata finds for the field
CurBag == GetFieldMetadata(metadata, CurParent, CurName)

\* the bag declared under the exact key "parent.field"
ExactBag ==
    IF DictHas(metadata, CurParent \o "." \o CurName)
    THEN DictGet(metadata, CurParent \o "." \o CurName)
    ELSE EmptyBag

\* the iteration produced a descriptor
Described == InLoop /\ pc' = "analyzing"

\* the descriptor the iteration appended
NewField == stack'[Len(stack)].fields[Len(Top.fields) + 1]

\* the iteration started the analysis of an entity
Entered == Len(stack') = Len(stack) + 1

IsEntityExample(value) ==
    IsDict(value) \/ (IsList(value) /\ Len(value.c) > 0 /\ IsDict(value.c[1]))

IsListOfDicts(value) == IsList(value) /\ Len(value.c) > 0 /\ IsDict(value.c[1])

KeyCount(graph, name) == Cardinality({i \in 1..Len(graph) : graph[i].k = name})

Visited == {visits[i] : i \in 1..Len(visits)}

RECURSIVE EntriesWeight(_)
\* the iterations and returns an example sub-document can still cause
EntriesWeight(entries) ==
    IF Len(entries) = 0 THEN 1
    ELSE IF entries[1].k = METADATA_KEY THEN EntriesWeight(Tail(entries))
    ELSE LET value == entries[1].v
             below == IF IsDict(value) THEN EntriesWeight(value.c)
                      ELSE IF IsListOfDicts(value) THEN EntriesWeight(value.c[1].c)
                      ELSE 0
         IN  1 + below + EntriesWeight(Tail(entries))

RECURSIVE StackWeight(_)
StackWeight(frames) ==
    IF Len(frames) = 0 THEN 0
    ELSE EntriesWeight(SubSeq(frames[1].items, frames[1].idx, Len(frames[1].items)))
         + StackWeight(Tail(frames))

\* C4: analyze_structure terminates on every finite document (each step of
\* the analysis lowers the work the example documents on the call stack can
\* still cause), including documents whose entities refer to each other; on
\* return every entity whose analysis was entered, the root and an entity
\* entered twice through a cycle included, is a key of the graph exactly once.
C4_Terminates ==
    /\ [][pc = "analyzing" =>
            \/ pc' # "analyzing"
            \/ StackWeight(stack') < StackWeight(stack)]_vars
    /\ [](Returned => \A name \in Visited : KeyCount(analyzed, name) = 1)

\* user has a list field of order, order a singular field back to user
C4_Witness ==
    /\ Returned
    /\ visits = <<"user", "order", "user">>
    /\ KeyCount(analyzed, "user") = 1
    /\ KeyCount(analyzed, "order") = 1
    /\ \E f \in {DictGet(analyzed, "user")[j] : j \in 1..Len(DictGet(analyzed, "user"))} :
          f.is_list /\ f.is_relationship /\ f.relationship_type = "order"
    /\ \E f \in {DictGet(analyzed, "order")[j] : j \in 1..Len(DictGet(analyzed, "order"))} :
          ~f.is_list /\ f.is_relationship /\ f.relationship_type = "user"

\* the field carries an entity_type directive that names an entity
NamesEntity == "entity_type" \in DOMAIN ExactBag /\ ExactBag["entity_type"] # NoneValue

\* the descriptor is a relationship to the named entity, which is a key of the
\* graph or the entity whose analysis the iteration entered
RelatesTo(name) ==
    /\ NewField.is_relationship
    /\ NewField.relationship_type = name
    /\ DictHas(analyzed, name) \/ (Entered /\ stack'[Len(stack')].type_name = name)

\* every entity entered is a key on return, and no key is ever dropped
EnteredBecomeKeys ==
    /\ [](Returned => Visited \subseteq Entities(analyzed))
    /\ [][pc = "analyzing" => Entities(analyzed) \subseteq Entities(analyzed')]_vars

\* C5 as stated: an entity_type directive naming an entity, on a field whose
\* example is a dict or a non-empty list of dicts, always makes the field a
\* relationship to that entity, which is a key of the graph.
C5_DirectiveAlwaysWins ==
    /\ [][(Described /\ NamesEntity /\ IsEntityExample(CurValue))
            => RelatesTo(ExactBag["entity_type"])]_vars
    /\ EnteredBecomeKeys

\* C5 amended: the same, for a field whose name differs from its parent
\* entity's name.
C5_DirectiveWinsUnlessSelfNamed ==
    /\ [][(Described /\ NamesEntity /\ IsEntityExample(CurValue) /\ CurName # CurParent)
            => RelatesTo(ExactBag["entity_type"])]_vars
    /\ EnteredBecomeKeys

C5_Witness ==
    /\ Returned
    /\ DictHas(analyzed, "order")
    /\ \E f \in FieldsOf(analyzed) :
          /\ f.name = "tags"
          /\ BagGet(f.metadata, "entity_type", NoneValue) = "order"
          /\ f.is_relationship
          /\ f.relationship_type = "order"

\* C6: with entity_type = None in the directive bag the field stays an opaque
\* non-relationship value and no entity is created for it, for a dict and for
\* a non-empty list of dicts.
C6_NullDirectiveKeepsOpaque ==
    [][(Described /\ "entity_type" \in DOMAIN ExactBag
          /\ ExactBag["entity_type"] = NoneValue /\ IsEntityExample(CurValue))
         => (~NewField.is_relationship /\ ~Entered /\ visits' = visits)]_vars

\* C7 as stated: a non-empty list of dicts without an entity_type directive
\* is a plural foreign key to the entity named by the singularized field name.
C7_ListIsPluralForeignKey ==
    [][(Described /\ IsListOfDicts(CurValue) /\ "entity_type" \notin DOMAIN CurBag)
         => /\ NewField.is_relationship
            /\ NewField.is_list
            /\ NewField.relationship_type = Singularize(CurName)
            /\ CurName = "addresses" => NewField.relationship_type = "address"
            /\ CurName = "orders" => NewField.relationship_type = "order"
            /\ NewField.is_foreign_key
            /\ NewField.foreign_key_to = NewField.relationship_type]_vars

\* C7 amended: when the field's name differs from its parent entity's name,
\* the field is a plural relationship to the entity named by the singularized
\* field name ("addresses" gives "address", "orders" gives "order"): a foreign
\* key to it, unless the directive bag marks the field many-to-many.
C7_ListIsPluralRelationship ==
    [][(Described /\ IsListOfDicts(CurValue) /\ "entity_type" \notin DOMAIN CurBag
          /\ CurName # CurParent)
         => /\ NewField.is_relationship
            /\ NewField.is_list
            /\ NewField.relationship_type = Singularize(CurName)
            /\ CurName = "addresses" => NewField.relationship_type = "address"
            /\ CurName = "orders" => NewField.relationship_type = "order"
            /\ IF BagGet(CurBag, "is_many_to_many", FALSE)
               THEN NewField.is_many_to_many /\ ~NewField.is_foreign_key
               ELSE /\ NewField.is_foreign_key
                    /\ NewField.foreign_key_to = NewField.relationship_type]_vars

C7_Witness ==
    /\ Returned
    /\ DictHas(analyzed, "address")
    /\ \E f \in FieldsOf(analyzed) :
          /\ f.name = "addresses"
          /\ f.is_list
          /\ f.is_foreign_key
          /\ f.relationship_type = "address"
          /\ "entity_type" \notin DOMAIN f.metadata

\* the names of the descriptors derived from the example, the synthetic "id"
\* of the finishing pass left out
DataNames(fields) ==
    IF Len(fields) > 0 /\ fields[1] = IdField
    THEN [j \in 1..(Len(fields) - 1) |-> fields[j + 1].name]
    ELSE [j \in 1..Len(fields) |-> fields[j].name]

TopLevelKeys == DictKeys(DictWithout(original.c, METADATA_KEY))

C9_ConstructionFailsExactlyWhen ==
    [][pc = "new" =>
         IF \/ ~IsDict(document)
            \/ /\ arg_type_name = NoneValue
               /\ Cardinality({i \in 1..Len(document.c) :
                                 document.c[i].k # METADATA_KEY}) # 1
         THEN pc' = "error" /\ error' = "ValueError"
         ELSE pc' = "ready" /\ error' = ""]_vars

\* a document holding only the reserved key, no name supplied
C9_Witness ==
    /\ pc = "error"
    /\ error = "ValueError"
    /\ arg_type_name = NoneValue
    /\ IsDict(original)
    /\ DictKeys(original.c) = <<METADATA_KEY>>

RecognizedTypes == {"string", "integer", "float", "boolean", "json", "array"}

DeclaresUnrecognizedType ==
    "type" \in DOMAIN CurBag /\ CurBag["type"] \notin RecognizedTypes

\* C10 as stated: every analyzed field whose directive bag declares an
\* unrecognized type makes analyze_structure fail with a ValueError.
C10_UnrecognizedTypeFails ==
    [][(InLoop /\ DeclaresUnrecognizedType)
         => (pc' = "error" /\ error' = "ValueError")]_vars

\* C10 amended: it does, unless the bag also marks the field a reference
\* table and the example value is a string; that field is analyzed as a
\* string-typed reference table and its declared type is not looked at.
C10_UnrecognizedTypeFailsUnlessReferenceTable ==
    [][(InLoop /\ DeclaresUnrecognizedType)
         => IF BagGet(CurBag, "is_reference_table", FALSE) /\ CurValue.t = "str"
            THEN /\ pc' = "analyzing"
                 /\ NewField.is_reference_table
                 /\ NewField.python_type = "str"
            ELSE pc' = "error" /\ error' = "ValueError"]_vars

C10_Witness ==
    /\ pc = "error"
    /\ error = "ValueError"
    /\ visits # <<>>
    /\ \E i \in 1..Len(metadata) : BagGet(metadata[i].v, "type", "string") = "bogus"

\* ---- failures, the reserved key, closure

\* C11: when analyze_structure fails with a configuration error the graph is
\* left as it was before the call, empty on a first call, so that no models
\* are generated from a partially populated graph.
C11_FailureLeavesGraphEmpty ==
    /\ (pc = "error" /\ run = 1) => analyzed = <<>>
    /\ pc = "generated" => error = ""

RECURSIVE NamesReservedKey(_)
\* some "_pyflattendb" block of the document holds an entity_type directive
\* that names the reserved key
NamesReservedKey(value) ==
    IF IsDict(value)
    THEN \E i \in 1..Len(value.c) :
            IF value.c[i].k = METADATA_KEY
            THEN /\ IsDict(value.c[i].v)
                 /\ \E j \in 1..Len(value.c[i].v.c) :
                       BagGet(value.c[i].v.c[j].v, "entity_type", NoneValue) = METADATA_KEY
            ELSE NamesReservedKey(value.c[i].v)
    ELSE IF IsList(value)
    THEN \E i \in 1..Len(value.c) : NamesReservedKey(value.c[i])
    ELSE FALSE

ReservedKeyIsNoData ==
    /\ \A field \in AllFields : field.name # METADATA_KEY
    /\ METADATA_KEY \notin Entities(analyzed)
    /\ METADATA_KEY \notin Visited

C13_GraphClosed ==
    Returned =>
        \A field \in FieldsOf(analyzed) :
            field.is_relationship =>
                /\ field.relationship_type # NoneValue
                /\ DictHas(analyzed, field.relationship_type)

\* ---- declared types, reference tables, field names

\* the value type each recognized type name stands for
DeclaredPythonType(name) ==
    CASE name = "string" -> "str"
      [] name = "integer" -> "int"
      [] name = "float" -> "float"
      [] name = "boolean" -> "bool"
      [] name = "json" -> "dict"
      [] name = "array" -> "list"

DeclaresRecognizedType ==
    "type" \in DOMAIN CurBag /\ CurBag["type"] \in RecognizedTypes

\* C14 as stated: a field whose directive bag declares a recognized type has
\* the declared type as its value type, whatever the example value is.
C14_DeclaredTypeWins ==
    [][(Described /\ DeclaresRecognizedType)
         => NewField.python_type = DeclaredPythonType(CurBag["type"])]_vars

\* C14 amended: it has, except that a field marked a reference table with a
\* string example is string-typed, and a field with a None example and an
\* entity_type directive is typed Any.
C14_DeclaredTypeWinsUnlessOverruled ==
    [][(Described /\ DeclaresRecognizedType)
         => NewField.python_type =
               IF BagGet(CurBag, "is_reference_table", FALSE) /\ CurValue.t = "str"
               THEN "str"
               ELSE IF CurValue.t = "NoneType" /\ "entity_type" \in DOMAIN CurBag
               THEN "Any"
               ELSE DeclaredPythonType(CurBag["type"])]_vars

\* type "string" declared for a field whose example is an integer
C14_Witness ==
    /\ Returned
    /\ DictHas(original.c, "user")
    /\ IsDict(DictGet(original.c, "user"))
    /\ DictHas(analyzed, "user")
    /\ \E i \in 1..Len(DictGet(original.c, "user").c) :
          /\ DictGet(original.c, "user").c[i].v = PyInt
          /\ \E j \in 1..Len(DictGet(analyzed, "user")) :
                LET field == DictGet(analyzed, "user")[j]
                IN  /\ field.name = DictGet(original.c, "user").c[i].k
                    /\ BagGet(field.metadata, "type", NoneValue) = "string"
                    /\ field.python_type = "str"

C16_FieldNamesDistinct ==
    Returned =>
        \A i \in 1..Len(analyzed) :
            \A j, k \in 1..Len(analyzed[i].v) :
                j # k => analyzed[i].v[j].name # analyzed[i].v[k].name

\* ---- generated models, registration order, empty examples

\* C17: after generate_pydantic_models every relationship field whose target
\* is a key of the graph is typed with the generated model of that target,
\* Optional[model] when singular and List[Optional[model]] when plural, in
\* whatever order the entities were registered.
C17_RelationshipsWired ==
    pc = "generated" =>
        \A i \in 1..Len(analyzed) :
            \A j \in 1..Len(analyzed[i].v) :
                LET field == analyzed[i].v[j]
                IN  (field.is_relationship /\ DictHas(analyzed, field.relationship_type))
                        => DictGet(DictGet(generated_models, analyzed[i].k), field.name)
                             = Annotation(field.relationship_type, TRUE,
                                          IF field.is_list THEN "List[Optional]"
                                          ELSE "Optional")

\* C18: an entity is a key of the graph when the analysis of its fields
\* begins, and no analysis begins for an entity whose analysis is in progress.
C18_RegisteredBeforeAnalyzed ==
    [][(pc' = "analyzing" /\ Len(stack') > Len(stack))
         => /\ DictHas(analyzed', stack'[Len(stack')].type_name)
            /\ \A i \in 1..Len(stack) :
                  stack[i].type_name # stack'[Len(stack')].type_name]_vars

\* C19: during one top-level run no entity name is the subject of more than
\* one field analysis.
C19_EachEntityAnalyzedOnce ==
    \A i, j \in 1..Len(visits) : i # j => visits[i] # visits[j]

\* C20: an empty list and an empty dict each give a plain descriptor, no
\* relationship and no foreign key, and start no entity.
C20_EmptyExamplesArePlain ==
    [][(Described /\ CurValue \in {Dict(<<>>), List(<<>>)})
         => /\ ~NewField.is_relationship
            /\ ~NewField.is_foreign_key
            /\ ~Entered
            /\ visits' = visits]_vars

\* C21 as stated: a field whose example is null and whose directive bag
\* declares an entity_type is described as a relationship to the declared
\* type, and as nullable.
C21_NullEntityIsNullableRelationship ==
    [][(Described /\ IsNone(CurValue) /\ "entity_type" \in DOMAIN CurBag)
         => /\ NewField.is_relationship
            /\ NewField.relationship_type = CurBag["entity_type"]
            /\ NewField.nullable]_vars

\* C21: a field whose example is null and whose directive bag declares an
\* entity_type is described as a relationship to the declared type; it is
\* nullable unless the bag's own nullable directive says otherwise.
C21_NullEntityIsRelationshipNullableByDefault ==
    [][(Described /\ IsNone(CurValue) /\ "entity_type" \in DOMAIN CurBag)
         => /\ NewField.is_relationship
            /\ NewField.relationship_type = CurBag["entity_type"]
            /\ NewField.nullable = BagGet(CurBag, "nullable", TRUE)]_vars

\* a returned graph holds a relationship made from a null example whose bag
\* declares it not nullable
C21_Witness ==
    /\ Returned
    /\ \E field \in FieldsOf(analyzed) :
          /\ field.python_type = "Any"
          /\ field.is_relationship
          /\ field.relationship_type = "order"
          /\ ~field.nullable
          /\ "nullable" \in DOMAIN field.metadata

\* a call of analyze_structure starts on this step
Entering == pc' = "analyzing" /\ Len(stack') = Len(stack) + 1

\* the sub-document of the call that starts on this step
EnteredExample == IF stack = <<>> THEN root_data ELSE NestedValue(CurValue)

\* C22: when a call starts on a sub-document with a metadata block, every
\* declaration of the block is in the store afterwards, replacing the bag the
\* store held for that key, and the other keys keep their bags; the merge is
\* done while the entity's field list is still empty; the store changes at no
\* other step of the analysis, and every field is described from the bag the
\* store holds when the field is reached.
C22_NestedBlockLastWriteWins ==
    [][/\ Entering
          => LET block == ExtractMetadata(EnteredExample)
             IN  /\ \A i \in 1..Len(block) :
                       DictGet(metadata', block[i].k) = block[i].v
                 /\ \A i \in 1..Len(metadata) :
                       metadata[i].k \notin KeySet(block)
                           => DictGet(metadata', metadata[i].k) = metadata[i].v
                 /\ KeySet(metadata') = KeySet(metadata) \cup KeySet(block)
                 /\ stack'[Len(stack')].fields = <<>>
                 /\ stack'[Len(stack')].idx = 1
       /\ (pc = "analyzing" /\ ~Entering) => metadata' = metadata
       /\ Described => NewField.metadata = GetFieldMetadata(metadata, CurParent, CurName)]_vars

\* a nested block replaced the bag the document's own block declared for a
\* key, and a field of the returned graph carries the replacing bag
C22_Witness ==
    /\ Returned
    /\ \E i \in 1..Len(metadata) :
          /\ DictHas(ExtractMetadata(original), metadata[i].k)
          /\ DictGet(ExtractMetadata(original), metadata[i].k) # metadata[i].v
          /\ \E field \in FieldsOf(analyzed) :
                /\ EndsWith(metadata[i].k, "." \o field.name)
                /\ field.metadata = metadata[i].v

\* the innermost active call registers its entity and returns on this step
Returning == pc = "analyzing" /\ Top.idx > Len(Top.items)

\* the names of the descriptors, in list order
FieldNamesOf(fields) == [j \in 1..Len(fields) |-> fields[j].name]

C24_NonMappingRootIsValueError ==
    [][(pc = "ready" /\ ~IsDict(root_data))
         => /\ pc' = "error"
            /\ error' = "ValueError"
            /\ analyzed' = <<>>]_vars

\* C25 as stated: a field named as its parent entity is described as a plain
\* field, no relationship, no foreign key, no list, and no nested analysis
\* starts for its value.
C25_SelfNamedFieldIsPlain ==
    [][(Described /\ CurName = CurParent)
         => /\ ~NewField.is_relationship
            /\ ~NewField.is_foreign_key
            /\ ~NewField.is_many_to_many
            /\ ~NewField.is_list
            /\ ~Entered]_vars

\* C25: the same, unless the example is null and the field's bag declares an
\* entity_type: the null rule comes first and makes the field a relationship.
C25_SelfNamedFieldIsPlainUnlessNullEntity ==
    [][(Described /\ CurName = CurParent)
         => /\ ~Entered
            /\ ~NewField.is_foreign_key
            /\ ~NewField.is_many_to_many
            /\ ~NewField.is_list
            /\ NewField.is_relationship
                  <=> (IsNone(CurValue) /\ "entity_type" \in DOMAIN CurBag)]_vars

\* the root entity "user" has a plain field "user" whose example is a
\* list of dicts
C25_Witness ==
    /\ Returned
    /\ type_name = "user"
    /\ DictHas(root_data.c, "user")
    /\ IsListOfDicts(DictGet(root_data.c, "user"))
    /\ \E field \in FieldsOf(analyzed) :
          /\ field.name = "user"
          /\ field.python_type = "list"
          /\ ~field.is_relationship
    /\ Len(visits) = 1

\* C26: a dict-valued field without entity_type directive (and not named as
\* its parent) relates to the singularized lowercased field name if that is
\* a common entity, else to the lowercased field name if that is one, else to
\* the field name as written; a list-of-dicts field without directive relates
\* to the singularized field name; the nested call, if one starts, is for the
\* entity of that name.
C26_EntityNamePriority ==
    [][(Described /\ CurName # CurParent /\ "entity_type" \notin DOMAIN CurBag
           /\ IsEntityExample(CurValue))
         => LET chosen ==
                    IF IsListOfDicts(CurValue) THEN Singularize(CurName)
                    ELSE IF Singularize(Lower(CurName)) \in COMMON_ENTITIES
                    THEN Singularize(Lower(CurName))
                    ELSE IF Lower(CurName) \in COMMON_ENTITIES THEN Lower(CurName)
                    ELSE CurName
            IN  /\ NewField.is_relationship
                /\ NewField.relationship_type = chosen
                /\ Entered => stack'[Len(stack')].type_name = chosen]_vars

\* the dict under "Orders" became the entity "order", the capitalised plural
\* resolved through the common-entity set
C26_Witness ==
    /\ Returned
    /\ DictHas(analyzed, "order")
    /\ \E field \in FieldsOf(analyzed) :
          /\ field.name = "Orders"
          /\ field.python_type = "dict"
          /\ field.relationship_type = "order"

\* C27: the caller's document is, at every point of construction and
\* analysis, the document that was passed in.
C27_DocumentUnchanged == document = original

\* the first entry of visits for the entity name
FirstVisit(name) ==
    CHOOSE i \in 1..Len(visits) :
        visits[i] = name /\ \A j \in 1..(i - 1) : visits[j] # name

\* the calls that analyzed an example of the entity
VisitsOf(name) == {i \in 1..Len(visits) : visits[i] = name}

\* C28: in the returned graph every entity's field list is the one the first
\* call entered for that name derived from its example, with or without the
\* synthetic "id" in front; and once that call has returned, no later step
\* changes the entity's list.
C28_FirstEnteredExampleWins ==
    /\ [](Returned
            => \A i \in 1..Len(analyzed) :
                  /\ analyzed[i].k \in Visited
                  /\ derived[FirstVisit(analyzed[i].k)].done
                  /\ analyzed[i].v \in
                        {derived[FirstVisit(analyzed[i].k)].fields,
                         <<IdField>> \o derived[FirstVisit(analyzed[i].k)].fields})
    /\ [][\A name \in Visited :
            (pc = "analyzing" /\ derived[FirstVisit(name)].done)
                => DictGet(analyzed', name) = DictGet(analyzed, name)]_vars

\* an entity was entered twice, the two calls derived different field lists,
\* and the returned graph holds the list of the first
C28_Witness ==
    /\ Returned
    /\ \E name \in Visited :
          \E i \in VisitsOf(name) :
              /\ i # FirstVisit(name)
              /\ derived[i].fields # derived[FirstVisit(name)].fields
              /\ DictGet(analyzed, name) = <<IdField>> \o derived[FirstVisit(name)].fields

\* C29: a second analyze_structure call on the same generator, after the
\* first returned, returns the graph the first returned: the same entities,
\* the same descriptors in the same order.
C29_SecondCallSameGraph ==
    (Returned /\ second = "again") => SameGraph(first_result, analyzed)

\* C30: in a returned graph a descriptor is a foreign key exactly when it is
\* a relationship that is not many-to-many, and its foreign-key target is
\* then its relationship target.
C30_ForeignKeyIffDirectRelationship ==
    Returned
        => \A field \in FieldsOf(analyzed) :
              /\ field.is_foreign_key
                    <=> (field.is_relationship /\ ~field.is_many_to_many)
              /\ field.is_foreign_key
                    => field.foreign_key_to = field.relationship_type

====
